---- MODULE Spec2Model ----
\* Model of the micro-ROS Agent control plane (app/main.py, app/settings.py):
\* the asyncio event loop that runs the start/stop/status request handlers and
\* the internal start/stop tasks they schedule, and the JSON settings file the
\* start path and the boot path read.
EXTENDS Integers, Sequences, FiniteSets, TLC

\* Number of HTTP requests issued in one run of the control plane.
MaxReqs == 2

Reqs == 1 .. MaxReqs

\* Who scheduled an internal task: a request, or on_startup (written 0).
Origins == 0 .. MaxReqs

Ops == {"start", "stop", "status"}

\* Outcome of one attempt to write the settings file: the write completes, it
\* fails before the file is opened (makedirs/open raise), or it fails after
\* open(..., "w") has truncated the file.
IOOutcomes == {"ok", "fail", "partial"}

Keys == {"enabled", "transport", "port", "verbose"}

VARIABLES
    micro_ros_agent_running,  \* main.py global flag
    micro_ros_agent,          \* main.py global handle
    file,                     \* content of SETTINGS_FILE on disk
    DEFAULT_SETTINGS,         \* settings.py module-level dict (mutable)
    booted,                   \* on_startup has run
    enabled,                  \* local `enabled` of startup_auto_restart
    ready,                    \* event loop: FIFO of runnable callbacks
    timers,                   \* event loop: pending asyncio.sleep(2) timers
    req,                      \* per request: operation, position, response
    spawns,                   \* start steps executed since the last stop step
    errors,                   \* origins whose start step logged an error
    failed,                   \* the latest internal step was a start step that raised
    faulted,                  \* a write of the settings file failed or was cut short
    writer                    \* per key: the request whose handler set it last

vars == <<micro_ros_agent_running, micro_ros_agent, file, DEFAULT_SETTINGS,
          booted, enabled, ready, timers, req, spawns, errors, failed,
          faulted, writer>>

-----------------------------------------------------------------------------
\* Settings documents. Every stored value is written as its JSON text, so a
\* JSON string "2019" and a JSON number 2019 are different values.

NoKV == [k \in {} |-> ""]

\* The Python types json.load gives: dict for an object, list for an array,
\* str, int, float, bool, and NoneType for null.
Scalars == {"int", "float", "bool", "NoneType"}

\* A parsed JSON document: the type of the document, the type of its
\* "micro_ros_agent" member ("absent" without one), and that member's
\* key/value pairs when it is a dict. named: the document or the member is a
\* list or a string that holds the name looked up in it.
Doc(top, sec, kv) == [top |-> top, sec |-> sec, kv |-> kv, named |-> FALSE]

Named(d) == [d EXCEPT !.named = TRUE]

NullDoc == Doc("none", "absent", NoKV)

InitialDefaults ==
    Doc("dict", "dict",
        [k \in Keys |->
            CASE k = "enabled"   -> "false"
              [] k = "transport" -> "\"udp4\""
              [] k = "port"      -> "\"2019\""
              [] k = "verbose"   -> "\"4\""])

Missing == [kind |-> "missing", doc |-> NullDoc]
Corrupt == [kind |-> "corrupt", doc |-> NullDoc]
Json(d) == [kind |-> "json", doc |-> d]

\* The digits of a JSON number, from the i-th character to its exponent,
\* are all zero.
RECURSIVE ZeroDigits(_, _)
ZeroDigits(v, i) ==
    IF i > Len(v) \/ SubSeq(v, i, i) \in {"e", "E"}
    THEN TRUE
    ELSE SubSeq(v, i, i) \in {"0", "-", "."} /\ ZeroDigits(v, i + 1)

\* v is a JSON number equal to zero: 0, -0, 0.0, 0e0, ...
IsZero(v) == SubSeq(v, 1, 1) \in {"0", "-"} /\ ZeroDigits(v, 1)

\* Python truthiness of a value given as JSON text.
Truthy(v) == v \notin {"false", "null", "\"\"", "[]", "{}"} /\ ~IsZero(v)

\* save_settings: makedirs, open(..., "w"), json.dump; every exception is
\* swallowed, so the caller never learns the outcome.
save_settings(settings, f, io) ==
    CASE io = "ok"      -> Json(settings)
      [] io = "partial" -> Corrupt
      [] OTHER          -> f

\* get_settings: the returned dictionary, the file afterwards, and whether the
\* returned dictionary is the DEFAULT_SETTINGS object itself.
get_settings(f, defaults, io) ==
    IF f.kind = "json"
    THEN [ret |-> f.doc, file |-> f, isDefault |-> FALSE]
    ELSE [ret |-> defaults, file |-> save_settings(defaults, f, io),
          isDefault |-> TRUE]

\* get_settings writes the defaults when it cannot load the file; that write
\* fails or is cut short when the outcome is not "ok".
WriteFault(f, io) == f.kind # "json" /\ io # "ok"

\* Outcomes of the write get_settings makes from file f: it writes nothing
\* when the file loads.
DefaultsWrite(f) == IF f.kind = "json" THEN {"ok"} ELSE IOOutcomes

\* Outcomes of the writes of three get_settings calls in a row from file f.
ReadOutcomes(f, defaults) ==
    { ios \in [1 .. 3 -> IOOutcomes] :
        /\ ios[1] \in DefaultsWrite(f)
        /\ ios[2] \in DefaultsWrite(get_settings(f, defaults, ios[1]).file)
        /\ ios[3] \in DefaultsWrite(
                get_settings(get_settings(f, defaults, ios[1]).file,
                             defaults, ios[2]).file) }

\* settings.get("micro_ros_agent", {}).get(key, default) raises when the
\* document or its section is not a dict.
GetterRaises(doc) == doc.top # "dict" \/ doc.sec \notin {"absent", "dict"}

\* The type the raising getter called .get on.
RaisedOn(doc) == IF doc.top # "dict" THEN doc.top ELSE doc.sec

GetterValue(doc, defaults, key) ==
    IF doc.sec = "dict" /\ key \in DOMAIN doc.kv
    THEN doc.kv[key]
    ELSE defaults.kv[key]

\* `name in x` and, when it holds, `x[name]`, for x of type t that is not a
\* dict: a scalar is not iterable and a list or a string cannot be indexed
\* by a name, so either raises; a list or a string without the name does not.
LookupRaises(t, named) == t \in Scalars \/ named

\* get_micro_ros_agent_enabled: the stored value when the two `in` tests
\* hold, the default when one is false, False when the lookup raises; never
\* raises; [ret, file].
get_micro_ros_agent_enabled(f, defaults, io) ==
    LET g == get_settings(f, defaults, io)
        d == g.ret
    IN  [file |-> g.file,
         ret  |-> CASE d.top # "dict" ->
                         IF LookupRaises(d.top, d.named) THEN "false"
                         ELSE defaults.kv["enabled"]
                    [] d.sec = "absent" -> defaults.kv["enabled"]
                    [] d.sec # "dict" ->
                         IF LookupRaises(d.sec, d.named) THEN "false"
                         ELSE defaults.kv["enabled"]
                    [] OTHER -> GetterValue(d, defaults, "enabled")]

\* The three getters of the start step, in order (transport, port, verbose):
\* the file afterwards and whether one of them raised.
ReadAgentSettings(f, defaults, io1, io2, io3) ==
    LET g1 == get_settings(f, defaults, io1)
        g2 == get_settings(g1.file, defaults, io2)
        g3 == get_settings(g2.file, defaults, io3)
    IN  IF GetterRaises(g1.ret)
        THEN [file |-> g1.file, raised |-> TRUE, fault |-> WriteFault(f, io1)]
        ELSE IF GetterRaises(g2.ret)
        THEN [file |-> g2.file, raised |-> TRUE,
              fault |-> WriteFault(f, io1) \/ WriteFault(g1.file, io2)]
        ELSE [file |-> g3.file, raised |-> GetterRaises(g3.ret),
              fault |-> \/ WriteFault(f, io1)
                        \/ WriteFault(g1.file, io2)
                        \/ WriteFault(g2.file, io3)]

-----------------------------------------------------------------------------
\* Settings files the control plane may find at boot.

SectionWith(en) ==
    [k \in {"enabled", "transport"} |->
        IF k = "enabled" THEN en ELSE "\"udp4\""]

InitFiles ==
    { Missing, Corrupt,
      Json(Doc("list", "absent", NoKV)),
      Json(Named(Doc("list", "absent", NoKV))),
      Json(Doc("NoneType", "absent", NoKV)),
      Json(Doc("dict", "absent", NoKV)),
      Json(Doc("dict", "int", NoKV)),
      Json(Doc("dict", "list", NoKV)),
      Json(Doc("dict", "dict", NoKV)),
      Json(Doc("dict", "dict", SectionWith("true"))),
      Json(Doc("dict", "dict", SectionWith("false"))),
      Json(Doc("dict", "dict", SectionWith("1"))),
      Json(Doc("dict", "dict", SectionWith("\"false\""))),
      Json(Doc("dict", "dict", SectionWith("0.0"))),
      Json(InitialDefaults) }

\* enabled=true is stored in the settings file.
PersistedEnabled(f) ==
    /\ f.kind = "json"
    /\ f.doc.top = "dict"
    /\ f.doc.sec = "dict"
    /\ "enabled" \in DOMAIN f.doc.kv
    /\ f.doc.kv["enabled"] = "true"

-----------------------------------------------------------------------------
\* Event loop items and requests.

Item(k, i) == [kind |-> k, id |-> i]

IsHead(k, i) == ready # <<>> /\ Head(ready) = Item(k, i)

Pending(k, i) == \E n \in 1 .. Len(ready) : ready[n] = Item(k, i)

\* Response messages of the start and stop endpoints.
MsgAlreadyRunning == "the micro-ROS Agent is already running"
MsgStarted == "the micro-ROS Agent started successfully"
MsgFailedToStart == "the micro-ROS Agent failed to start (check logs for details)"
MsgStopped == "the micro-ROS Agent stopped successfully"
MsgFailedToStop == "the micro-ROS Agent failed to stop (check logs for details)"

NoResp == [success |-> FALSE, running |-> FALSE, message |-> ""]

Resp(ok, msg) == [success |-> ok, running |-> FALSE, message |-> msg]

\* seen: the value of the running flag when the handler began.
\* arg: the query parameters; ret: the values returned; wfail: a write of one
\* of the handler's updates failed or was cut short.
IdleReq == [op |-> "none", pc |-> "idle", seen |-> FALSE, resp |-> NoResp,
            arg |-> NoKV, ret |-> NoKV, wfail |-> FALSE]

\* What the status endpoint reports for the flag.
Phase == IF micro_ros_agent_running THEN "Running" ELSE "Stopped"

Init ==
    /\ micro_ros_agent_running = FALSE
    /\ micro_ros_agent = "None"
    /\ file \in InitFiles
    /\ DEFAULT_SETTINGS = InitialDefaults
    /\ booted = FALSE
    /\ enabled = "unread"
    /\ ready = <<>>
    /\ timers = <<>>
    /\ req = [r \in Reqs |-> IdleReq]
    /\ spawns = 0
    /\ errors = {}
    /\ failed = FALSE
    /\ faulted = FALSE
    /\ writer = [k \in Keys |-> 0]

\* Variant of OnStartup that reads the enabled flag and schedules nothing.
OnStartup_NoAutoStart ==
    /\ ~booted
    /\ \E io \in DefaultsWrite(file) :
          LET g == get_micro_ros_agent_enabled(file, DEFAULT_SETTINGS, io)
          IN  /\ file' = g.file
              /\ enabled' = g.ret
              /\ faulted' = (faulted \/ WriteFault(file, io))
    /\ ready' = ready
    /\ booted' = TRUE
    /\ UNCHANGED <<micro_ros_agent_running, micro_ros_agent, DEFAULT_SETTINGS,
                   timers, req, spawns, errors, failed, writer>>

\* Variant of OnStartup that schedules the start step whatever the flag.
OnStartup_AlwaysStart ==
    /\ ~booted
    /\ \E io \in DefaultsWrite(file) :
          LET g == get_micro_ros_agent_enabled(file, DEFAULT_SETTINGS, io)
          IN  /\ file' = g.file
              /\ enabled' = g.ret
              /\ faulted' = (faulted \/ WriteFault(file, io))
    /\ ready' = Append(ready, Item("start_internal", 0))
    /\ booted' = TRUE
    /\ UNCHANGED <<micro_ros_agent_running, micro_ros_agent, DEFAULT_SETTINGS,
                   timers, req, spawns, errors, failed, writer>>

\* on_startup -> startup_auto_restart: read the enabled flag and, when it is
\* set, schedule the start step as a background task.
OnStartup ==
    /\ ~booted
    /\ \E io \in DefaultsWrite(file) :
          LET g == get_micro_ros_agent_enabled(file, DEFAULT_SETTINGS, io)
          IN  /\ file' = g.file
              /\ enabled' = g.ret
              /\ ready' = IF Truthy(g.ret)
                          THEN Append(ready, Item("start_internal", 0))
                          ELSE ready
              /\ faulted' = (faulted \/ WriteFault(file, io))
    /\ booted' = TRUE
    /\ UNCHANGED <<micro_ros_agent_running, micro_ros_agent, DEFAULT_SETTINGS,
                   timers, req, spawns, errors, failed, writer>>

\* A request reaches the server: its handler becomes runnable.
Arrive(r, op) ==
    /\ booted
    /\ req[r].pc = "idle"
    /\ \A q \in Reqs : q < r => req[q].pc # "idle"
    /\ req' = [req EXCEPT ![r].op = op, ![r].pc = "queued"]
    /\ ready' = Append(ready, Item("handler", r))
    /\ UNCHANGED <<micro_ros_agent_running, micro_ros_agent, file,
                   DEFAULT_SETTINGS, booted, enabled, timers, spawns, errors,
                   failed>>
    /\ UNCHANGED <<faulted, writer>>

\* Variant of StartHandler without the already-running check.
StartHandler_NoCheck(r) ==
    /\ IsHead("handler", r)
    /\ req[r].op = "start"
    /\ req' = [req EXCEPT ![r].pc = "sleeping",
                           ![r].seen = micro_ros_agent_running]
    /\ ready' = Append(Tail(ready), Item("start_internal", r))
    /\ timers' = Append(timers, r)
    /\ UNCHANGED <<micro_ros_agent_running, micro_ros_agent, file,
                   DEFAULT_SETTINGS, booted, enabled, spawns, errors, failed>>
    /\ UNCHANGED <<faulted, writer>>

\* start_micro_ros_agent up to its await: reject when the flag is set,
\* otherwise create the start task and sleep.
StartHandler(r) ==
    /\ IsHead("handler", r)
    /\ req[r].op = "start"
    /\ IF micro_ros_agent_running
       THEN /\ req' = [req EXCEPT ![r].pc = "done", ![r].seen = TRUE,
                         ![r].resp = Resp(FALSE, MsgAlreadyRunning)]
            /\ ready' = Tail(ready)
            /\ timers' = timers
       ELSE /\ req' = [req EXCEPT ![r].pc = "sleeping"]
            /\ ready' = Append(Tail(ready), Item("start_internal", r))
            /\ timers' = Append(timers, r)
    /\ UNCHANGED <<micro_ros_agent_running, micro_ros_agent, file,
                   DEFAULT_SETTINGS, booted, enabled, spawns, errors, failed>>
    /\ UNCHANGED <<faulted, writer>>

\* Variant of StartResume that reports success whatever the flag says.
StartResume_AlwaysOk(r) ==
    /\ IsHead("resume", r)
    /\ req[r].op = "start"
    /\ req' = [req EXCEPT ![r].pc = "done",
                 ![r].resp = Resp(TRUE, MsgStarted)]
    /\ ready' = Tail(ready)
    /\ UNCHANGED <<micro_ros_agent_running, micro_ros_agent, file,
                   DEFAULT_SETTINGS, booted, enabled, timers, spawns, errors,
                   failed>>
    /\ UNCHANGED <<faulted, writer>>

\* start_micro_ros_agent after its sleep: report the flag.
StartResume(r) ==
    /\ IsHead("resume", r)
    /\ req[r].op = "start"
    /\ req' = [req EXCEPT ![r].pc = "done",
                 ![r].resp = IF micro_ros_agent_running
                             THEN Resp(TRUE, MsgStarted)
                             ELSE Resp(FALSE, MsgFailedToStart)]
    /\ ready' = Tail(ready)
    /\ UNCHANGED <<micro_ros_agent_running, micro_ros_agent, file,
                   DEFAULT_SETTINGS, booted, enabled, timers, spawns, errors,
                   failed>>
    /\ UNCHANGED <<faulted, writer>>

\* stop_micro_ros_agent up to its await: create the stop task and sleep.
StopHandler(r) ==
    /\ IsHead("handler", r)
    /\ req[r].op = "stop"
    /\ req' = [req EXCEPT ![r].pc = "sleeping",
                           ![r].seen = micro_ros_agent_running]
    /\ ready' = Append(Tail(ready), Item("stop_internal", r))
    /\ timers' = Append(timers, r)
    /\ UNCHANGED <<micro_ros_agent_running, micro_ros_agent, file,
                   DEFAULT_SETTINGS, booted, enabled, spawns, errors, failed>>
    /\ UNCHANGED <<faulted, writer>>

\* stop_micro_ros_agent after its sleep: report the flag.
StopResume(r) ==
    /\ IsHead("resume", r)
    /\ req[r].op = "stop"
    /\ req' = [req EXCEPT ![r].pc = "done",
                 ![r].resp = IF ~micro_ros_agent_running
                             THEN Resp(TRUE, MsgStopped)
                             ELSE Resp(FALSE, MsgFailedToStop)]
    /\ ready' = Tail(ready)
    /\ UNCHANGED <<micro_ros_agent_running, micro_ros_agent, file,
                   DEFAULT_SETTINGS, booted, enabled, timers, spawns, errors,
                   failed>>
    /\ UNCHANGED <<faulted, writer>>

\* Variant of StatusHandler that first refreshes the flag from the handle.
StatusHandler_Refresh(r) ==
    /\ IsHead("handler", r)
    /\ req[r].op = "status"
    /\ micro_ros_agent_running' = (micro_ros_agent # "None")
    /\ req' = [req EXCEPT ![r].pc = "done",
                 ![r].seen = micro_ros_agent_running,
                 ![r].resp = [success |-> TRUE,
                              running |-> micro_ros_agent_running',
                              message |-> IF micro_ros_agent_running'
                                          THEN "Running" ELSE "Stopped"]]
    /\ ready' = Tail(ready)
    /\ UNCHANGED <<micro_ros_agent, file, DEFAULT_SETTINGS, booted, enabled,
                   timers, spawns, errors, failed>>
    /\ UNCHANGED <<faulted, writer>>

\* get_micro_ros_agent_status: one step, no await.
StatusHandler(r) ==
    /\ IsHead("handler", r)
    /\ req[r].op = "status"
    /\ req' = [req EXCEPT ![r].pc = "done",
                 ![r].seen = micro_ros_agent_running,
                 ![r].resp = [success |-> TRUE,
                              running |-> micro_ros_agent_running,
                              message |-> Phase]]
    /\ ready' = Tail(ready)
    /\ UNCHANGED <<micro_ros_agent_running, micro_ros_agent, file,
                   DEFAULT_SETTINGS, booted, enabled, timers, spawns, errors,
                   failed>>
    /\ UNCHANGED <<faulted, writer>>

\* start_micro_ros_agent_internal: set the flag, then read the settings; an
\* exception is logged and the flag stays as set.
StartInternal(o) ==
    /\ IsHead("start_internal", o)
    /\ micro_ros_agent_running' = TRUE
    /\ \E ios \in ReadOutcomes(file, DEFAULT_SETTINGS) :
          LET g == ReadAgentSettings(file, DEFAULT_SETTINGS,
                                     ios[1], ios[2], ios[3])
          IN  /\ file' = g.file
              /\ errors' = IF g.raised THEN errors \cup {o} ELSE errors
              /\ failed' = g.raised
              /\ faulted' = (faulted \/ g.fault)
    /\ spawns' = spawns + 1
    /\ ready' = Tail(ready)
    /\ UNCHANGED <<micro_ros_agent, DEFAULT_SETTINGS, booted, enabled, timers,
                   req, writer>>

\* stop_micro_ros_agent_internal: clear the flag; stop the handle if there is
\* one.
StopInternal(o) ==
    /\ IsHead("stop_internal", o)
    /\ micro_ros_agent_running' = FALSE
    /\ spawns' = 0
    /\ failed' = FALSE
    /\ ready' = Tail(ready)
    /\ UNCHANGED <<micro_ros_agent, file, DEFAULT_SETTINGS, booted, enabled,
                   timers, req, errors>>
    /\ UNCHANGED <<faulted, writer>>

\* The oldest asyncio.sleep(2) expires: its handler becomes runnable again.
TimerFire ==
    /\ timers # <<>>
    /\ LET r == Head(timers)
       IN  /\ req' = [req EXCEPT ![r].pc = "resume"]
           /\ ready' = Append(ready, Item("resume", r))
    /\ timers' = Tail(timers)
    /\ UNCHANGED <<micro_ros_agent_running, micro_ros_agent, file,
                   DEFAULT_SETTINGS, booted, enabled, spawns, errors, failed>>
    /\ UNCHANGED <<faulted, writer>>

\* One callback of the ready queue runs.
RunReady ==
    \/ \E r \in Reqs : StartHandler(r)
    \/ \E r \in Reqs : StartResume(r)
    \/ \E r \in Reqs : StopHandler(r)
    \/ \E r \in Reqs : StopResume(r)
    \/ \E r \in Reqs : StatusHandler(r)
    \/ \E o \in Origins : StartInternal(o)
    \/ \E o \in Origins : StopInternal(o)

Next ==
    \/ OnStartup
    \/ \E r \in Reqs, op \in Ops : Arrive(r, op)
    \/ RunReady
    \/ TimerFire

Spec == Init /\ [][Next]_vars

\* The event loop runs every runnable callback and every timer expires.
FairSpec == Spec /\ WF_vars(RunReady) /\ WF_vars(TimerFire)

-----------------------------------------------------------------------------
\* The settings endpoints.

\* dict[key] = val
SetKey(kv, key, val) ==
    [k \in DOMAIN kv \cup {key} |-> IF k = key THEN val ELSE kv[k]]

\* update_micro_ros_agent_<key>(val): load the document, add the section when
\* it is missing, assign the key, save. A document or section that is not a
\* dict makes the assignment raise (return False); the outcome of the save is
\* not seen, so every other path returns True. When get_settings returned the
\* DEFAULT_SETTINGS object, the assignment changes that object.
update_setting(f, defaults, key, val, io1, io2) ==
    LET g   == get_settings(f, defaults, io1)
        d   == g.ret
        new == Doc("dict", "dict",
                   SetKey(IF d.sec = "dict" THEN d.kv ELSE NoKV, key, val))
    IN  IF d.top # "dict" \/ d.sec \notin {"absent", "dict"}
        THEN [ret |-> FALSE, file |-> g.file, defaults |-> defaults,
              wfail |-> FALSE, fault |-> WriteFault(f, io1)]
        ELSE [ret |-> TRUE, file |-> save_settings(new, g.file, io2),
              defaults |-> IF g.isDefault THEN new ELSE defaults,
              wfail |-> io2 # "ok",
              fault |-> WriteFault(f, io1) \/ io2 # "ok"]

\* The first n updates of `keys` with the values of `arg`, in order: every
\* result they may have, over the outcomes of the two writes each update may
\* make.
RECURSIVE update_all(_, _, _, _, _)
update_all(f, defaults, keys, arg, n) ==
    IF n = 0
    THEN {[ret |-> TRUE, file |-> f, defaults |-> defaults, wfail |-> FALSE,
           fault |-> FALSE]}
    ELSE UNION {
           { LET u == update_setting(p.file, p.defaults, keys[n],
                                     arg[keys[n]], io1, io2)
             IN  [ret |-> p.ret /\ u.ret, file |-> u.file,
                  defaults |-> u.defaults, wfail |-> p.wfail \/ u.wfail,
                  fault |-> p.fault \/ u.fault] :
             io1 \in IOOutcomes, io2 \in IOOutcomes } :
           p \in update_all(f, defaults, keys, arg, n - 1) }

\* The keys each saving endpoint updates, in the order of its calls.
SaveKeys(op) ==
    IF op = "save-settings" THEN <<"transport", "port", "verbose">>
    ELSE <<"enabled">>

\* get_micro_ros_agent_settings: the three getters; a getter that raises
\* makes the endpoint answer success=false.
get_all(f, defaults, io1, io2, io3) ==
    LET g1 == get_settings(f, defaults, io1)
        g2 == get_settings(g1.file, defaults, io2)
        g3 == get_settings(g2.file, defaults, io3)
        r  == ReadAgentSettings(f, defaults, io1, io2, io3)
    IN  [file |-> r.file, raised |-> r.raised, fault |-> r.fault,
         on |-> CASE GetterRaises(g1.ret) -> RaisedOn(g1.ret)
                  [] GetterRaises(g2.ret) -> RaisedOn(g2.ret)
                  [] OTHER                -> RaisedOn(g3.ret),
         ret |-> IF r.raised THEN NoKV
                 ELSE [k \in {"transport", "port", "verbose"} |->
                         CASE k = "transport" -> GetterValue(g1.ret, defaults, k)
                           [] k = "port"      -> GetterValue(g2.ret, defaults, k)
                           [] OTHER           -> GetterValue(g3.ret, defaults, k)]]

StoreOps == {"get-settings", "save-settings", "get-enabled", "save-enabled"}

\* Two save-settings requests that differ in every key (port: int, the
\* others: str).
TripleA == [k \in {"transport", "port", "verbose"} |->
              CASE k = "transport" -> "\"tcp4\""
                [] k = "port"      -> "8888"
                [] OTHER           -> "\"6\""]

TripleB == [k \in {"transport", "port", "verbose"} |->
              CASE k = "transport" -> "\"serial\""
                [] k = "port"      -> "9999"
                [] OTHER           -> "\"2\""]

EnabledArg(v) == [k \in {"enabled"} |-> v]

\* Query parameters a request of each kind may carry.
ArgsOf(op) ==
    CASE op = "save-settings" -> {TripleA, TripleB}
      [] op = "save-enabled"  -> {EnabledArg("true"), EnabledArg("false")}
      [] OTHER                -> {NoKV}

MsgSettingsSaved == "Settings saved"
MsgSettingsFailed == "Failed to save some settings"
\* f"Enabled state saved: {enabled}" with enabled a bool
MsgEnabledSaved(v) ==
    "Enabled state saved: " \o (IF v = "true" THEN "True" ELSE "False")
MsgEnabledFailed == "Failed to save enabled state"
\* f"Error: {str(e)}" with e the AttributeError of .get on type t
MsgError(t) == "Error: '" \o t \o "' object has no attribute 'get'"

\* A settings request reaches the server.
ArriveStore(r, op, arg) ==
    /\ booted
    /\ req[r].pc = "idle"
    /\ \A q \in Reqs : q < r => req[q].pc # "idle"
    /\ req' = [req EXCEPT ![r].op = op, ![r].pc = "queued", ![r].arg = arg]
    /\ ready' = Append(ready, Item("handler", r))
    /\ UNCHANGED <<micro_ros_agent_running, micro_ros_agent, file,
                   DEFAULT_SETTINGS, booted, enabled, timers, spawns, errors,
                   failed, faulted, writer>>

\* get_micro_ros_agent_settings
GetSettingsHandler(r) ==
    /\ IsHead("handler", r)
    /\ req[r].op = "get-settings"
    /\ \E ios \in ReadOutcomes(file, DEFAULT_SETTINGS) :
          LET g == get_all(file, DEFAULT_SETTINGS, ios[1], ios[2], ios[3])
          IN  /\ file' = g.file
              /\ faulted' = (faulted \/ g.fault)
              /\ req' = [req EXCEPT ![r].pc = "done", ![r].ret = g.ret,
                           ![r].resp = IF g.raised
                                       THEN Resp(FALSE, MsgError(g.on))
                                       ELSE Resp(TRUE, "")]
    /\ ready' = Tail(ready)
    /\ UNCHANGED <<micro_ros_agent_running, micro_ros_agent, DEFAULT_SETTINGS,
                   booted, enabled, timers, spawns, errors, failed, writer>>

\* get_micro_ros_agent_enabled_state
GetEnabledHandler(r) ==
    /\ IsHead("handler", r)
    /\ req[r].op = "get-enabled"
    /\ \E io \in DefaultsWrite(file) :
          LET g == get_micro_ros_agent_enabled(file, DEFAULT_SETTINGS, io)
          IN  /\ file' = g.file
              /\ faulted' = (faulted \/ WriteFault(file, io))
              /\ req' = [req EXCEPT ![r].pc = "done",
                           ![r].ret = EnabledArg(g.ret),
                           ![r].resp = Resp(TRUE, "")]
    /\ ready' = Tail(ready)
    /\ UNCHANGED <<micro_ros_agent_running, micro_ros_agent, DEFAULT_SETTINGS,
                   booted, enabled, timers, spawns, errors, failed, writer>>

\* What a saving handler does to the store and the request, given the result
\* of its updates.
Saved(r, u, okMsg, failMsg) ==
    /\ file' = u.file
    /\ DEFAULT_SETTINGS' = u.defaults
    /\ faulted' = (faulted \/ u.fault)
    /\ writer' = [k \in Keys |->
                    IF k \in DOMAIN req[r].arg THEN r ELSE writer[k]]
    /\ req' = [req EXCEPT ![r].pc = "done", ![r].wfail = u.wfail,
                 ![r].resp = IF u.ret THEN Resp(TRUE, okMsg)
                             ELSE Resp(FALSE, failMsg)]
    /\ ready' = Tail(ready)
    /\ UNCHANGED <<micro_ros_agent_running, micro_ros_agent, booted, enabled,
                   timers, spawns, errors, failed>>

\* save_micro_ros_agent_settings: update transport, port, verbose; no await.
SaveSettingsHandler(r) ==
    /\ IsHead("handler", r)
    /\ req[r].op = "save-settings"
    /\ \E u \in update_all(file, DEFAULT_SETTINGS, SaveKeys(req[r].op),
                           req[r].arg, Len(SaveKeys(req[r].op))) :
          Saved(r, u, MsgSettingsSaved, MsgSettingsFailed)

\* save_micro_ros_agent_enabled_state
SaveEnabledHandler(r) ==
    /\ IsHead("handler", r)
    /\ req[r].op = "save-enabled"
    /\ \E u \in update_all(file, DEFAULT_SETTINGS, SaveKeys(req[r].op),
                           req[r].arg, Len(SaveKeys(req[r].op))) :
          Saved(r, u, MsgEnabledSaved(req[r].arg["enabled"]),
                MsgEnabledFailed)

\* The control plane dies while a saving handler is in its n-th update and is
\* started again: the write in progress has not opened the file ("fail"), has
\* truncated it ("partial") or has completed ("ok"); everything in memory is
\* lost and the requests that had not returned get no response.
CrashDuringSave(r) ==
    /\ IsHead("handler", r)
    /\ req[r].op \in {"save-settings", "save-enabled"}
    /\ \E n \in 1 .. Len(SaveKeys(req[r].op)) :
       \E u \in update_all(file, DEFAULT_SETTINGS, SaveKeys(req[r].op),
                           req[r].arg, n) :
          /\ u.ret
          /\ file' = u.file
    /\ micro_ros_agent_running' = FALSE
    /\ DEFAULT_SETTINGS' = InitialDefaults
    /\ booted' = FALSE
    /\ enabled' = "unread"
    /\ ready' = <<>>
    /\ timers' = <<>>
    /\ req' = [q \in Reqs |->
                 IF req[q].pc \in {"idle", "done"} THEN req[q]
                 ELSE [req[q] EXCEPT !.pc = "lost"]]
    /\ spawns' = 0
    /\ errors' = {}
    /\ failed' = FALSE
    /\ faulted' = TRUE
    /\ UNCHANGED <<micro_ros_agent, writer>>

\* The control plane with its settings endpoints.
StoreNext ==
    \/ Next
    \/ \E r \in Reqs, op \in StoreOps : \E arg \in ArgsOf(op) :
          ArriveStore(r, op, arg)
    \/ \E r \in Reqs : GetSettingsHandler(r)
    \/ \E r \in Reqs : GetEnabledHandler(r)
    \/ \E r \in Reqs : SaveSettingsHandler(r)
    \/ \E r \in Reqs : SaveEnabledHandler(r)

StoreSpec == Init /\ [][StoreNext]_vars

\* The control plane with its settings endpoints, on a host that may die
\* during a save.
CrashNext ==
    \/ StoreNext
    \/ \E r \in Reqs : CrashDuringSave(r)

CrashSpec == Init /\ [][CrashNext]_vars

-----------------------------------------------------------------------------
\* Steps of a request, read off two consecutive states.

\* The handler of request r, an `op` request, runs its first step.
Begins(r, op) ==
    /\ req[r].op = op
    /\ req[r].pc = "queued"
    /\ req'[r].pc \notin {"queued", "lost"}

\* The handler of request r, an `op` request, returns after its sleep.
Resumes(r, op) ==
    req[r].op = op /\ req[r].pc = "resume" /\ req'[r].pc = "done"

\* Request r, an `op` request, returns its response.
Returns(r, op) ==
    req[r].op = op /\ req[r].pc # "done" /\ req'[r].pc = "done"

\* A stop request has been accepted and has not returned yet.
StopInFlight ==
    \E s \in Reqs : req[s].op = "stop" /\ req[s].pc \in {"sleeping", "resume"}

-----------------------------------------------------------------------------
\* C1: start requests that are concurrent while the agent is stopped cause
\* exactly one execution of the start step: the start step never runs a second
\* time without a stop step in between.
SingleSpawn == spawns <= 1

\* C2: a start request whose handler begins while a stop request is in flight
\* is rejected at once (success=false) and schedules no start step.
StartDuringStopRejected ==
    [][\A r \in Reqs :
          (Begins(r, "start") /\ StopInFlight)
          => /\ req'[r].pc = "done"
             /\ ~req'[r].resp.success
             /\ ~Pending("start_internal", r)']_vars

\* C3: when a start request returns, the agent is running or the start is
\* reported failed; when a stop request returns, the agent is not running
\* (Stopped, or Failed with the handle cleared).
ConvergedOnReturn ==
    [][\A r \in Reqs :
          /\ Returns(r, "start")
             => (micro_ros_agent_running' \/ ~req'[r].resp.success)
          /\ Returns(r, "stop")
             => (~micro_ros_agent_running' /\ micro_ros_agent' = "None")]_vars

\* C4: a start request whose handler finds the agent running returns at once
\* with success=false and the "already running" message, schedules no start
\* step, and leaves the flag and the spawn count as they were.
AlreadyRunningRejected ==
    [][\A r \in Reqs :
          (Begins(r, "start") /\ micro_ros_agent_running)
          => /\ req'[r].pc = "done"
             /\ req'[r].resp = Resp(FALSE, MsgAlreadyRunning)
             /\ ~Pending("start_internal", r)'
             /\ timers' = timers
             /\ spawns' = spawns
             /\ micro_ros_agent_running']_vars

AlreadyRunningReached ==
    \E r \in Reqs :
        /\ req[r].op = "start"
        /\ req[r].pc = "done"
        /\ req[r].seen
        /\ req[r].resp.message = MsgAlreadyRunning
        /\ micro_ros_agent_running
        /\ spawns = 1

\* C5: a stop request whose handler finds the agent stopped returns
\* success=true (so the flag is still false when it returns).
StopWhenStoppedSucceeds ==
    \A r \in Reqs :
        (req[r].op = "stop" /\ req[r].pc = "done" /\ ~req[r].seen)
        => req[r].resp.success

\* C6: when enabled=true is stored at boot, on_startup schedules the start
\* step, and when that background step completes the agent is reported
\* running.
BootReconciliation ==
    [][/\ (~booted /\ booted' /\ PersistedEnabled(file))
          => Pending("start_internal", 0)'
       /\ (Pending("start_internal", 0) /\ ~Pending("start_internal", 0)')
          => (micro_ros_agent_running' /\ Phase' = "Running")]_vars

BootReconciled ==
    /\ booted
    /\ enabled = "true"
    /\ ~Pending("start_internal", 0)
    /\ micro_ros_agent_running
    /\ spawns = 1
    /\ \A r \in Reqs : req[r].pc = "idle"

\* C7: after a start step that raised, status does not report running, and the
\* start request that scheduled it returns success=false.
StartFailureReported ==
    /\ failed => ~micro_ros_agent_running
    /\ \A r \in Reqs :
          (r \in errors /\ req[r].op = "start" /\ req[r].pc = "done")
          => ~req[r].resp.success

\* C8: a start request whose handler begins after a start step that raised
\* (and no step since) is accepted: it schedules a new start step.
RetryAfterFailure ==
    [][\A r \in Reqs :
          (Begins(r, "start") /\ failed)
          => /\ Pending("start_internal", r)'
             /\ req'[r].resp.message # MsgAlreadyRunning]_vars

\* C9: a status request returns in its first step, whatever the other
\* requests are doing, reports the flag as it is, and changes neither the
\* flag, the handle, the settings nor the pending waits.
StatusPureRead ==
    [][\A r \in Reqs :
          Begins(r, "status")
          => /\ req'[r].pc = "done"
             /\ req'[r].resp.success
             /\ req'[r].resp.running = micro_ros_agent_running
             /\ UNCHANGED <<micro_ros_agent_running, micro_ros_agent, file,
                            DEFAULT_SETTINGS, timers>>]_vars

StatusDuringWait ==
    \E r, q \in Reqs :
        /\ req[r].op = "status"
        /\ req[r].pc = "done"
        /\ req[r].resp.running
        /\ micro_ros_agent_running
        /\ req[q].op \in {"start", "stop"}
        /\ req[q].pc = "sleeping"

\* C10: every request that arrived returns a response; a start that waited
\* returns success exactly when the flag is set at the end of the wait, a
\* stop that waited exactly when it is clear.
BoundedWait ==
    /\ \A r \in Reqs : (req[r].pc # "idle") ~> (req[r].pc = "done")
    /\ [][\A r \in Reqs :
             /\ Resumes(r, "start")
                => (req'[r].resp.success = micro_ros_agent_running')
             /\ Resumes(r, "stop")
                => (req'[r].resp.success = ~micro_ros_agent_running')]_vars

WaitEndedInFailure ==
    \E r \in Reqs :
        /\ req[r].op = "start"
        /\ req[r].pc = "done"
        /\ req[r].resp.message = MsgFailedToStart
        /\ ~req[r].resp.success

-----------------------------------------------------------------------------
\* The settings store.

SettingKeys == {"transport", "port", "verbose"}

\* The request whose handler set key k last answered success.
SetBy(k) == IF writer[k] # 0 /\ req[writer[k]].resp.success
            THEN writer[k] ELSE 0

\* C11: a get-settings request returns, for each of transport, port and
\* verbose, the value of the last save-settings request that answered
\* success, and a get-enabled-state request returns the value of the last
\* save-enabled-state request that answered success.
RoundTrip ==
    [][\A r \in Reqs :
          /\ Returns(r, "get-settings")
             => \A k \in SettingKeys :
                   SetBy(k) # 0
                   => /\ req'[r].resp.success
                      /\ req'[r].ret[k] = req[SetBy(k)].arg[k]
          /\ Returns(r, "get-enabled")
             => (SetBy("enabled") # 0
                 => req'[r].ret["enabled"] = req[SetBy("enabled")].arg["enabled"])
      ]_vars

\* C12: a save request one of whose writes of the settings file failed
\* answers success=false and leaves the settings file as it was.
FailedWriteReported ==
    [][\A r \in Reqs :
          ((Returns(r, "save-settings") \/ Returns(r, "save-enabled"))
              /\ req'[r].wfail)
          => (~req'[r].resp.success /\ file' = file)]_vars

\* The defaults as documented: transport udp4 (str), port 2019 (int),
\* verbose 4 (int), enabled false (bool).
DocumentedDefaults ==
    [k \in Keys |->
        CASE k = "enabled"   -> "false"
          [] k = "transport" -> "\"udp4\""
          [] k = "port"      -> "2019"
          [] OTHER           -> "4"]

\* A JSON text without the quotes of a string: the value up to its type.
Bare(v) == IF SubSeq(v, 1, 1) = "\"" THEN SubSeq(v, 2, Len(v) - 1) ELSE v

\* Key k is not stored: the file is missing or does not parse, or its
\* document has no such key.
Absent(f, k) ==
    \/ f.kind # "json"
    \/ f.doc.top # "dict"
    \/ f.doc.sec # "dict"
    \/ k \notin DOMAIN f.doc.kv

\* C13: a get of a key that is not stored (the file is missing or unreadable,
\* or holds no such key) succeeds and returns the documented default of the
\* key, read up to its type, whatever was requested before.
DefaultWhenAbsent ==
    [][\A r \in Reqs :
          /\ Returns(r, "get-settings")
             => \A k \in SettingKeys :
                   Absent(file, k)
                   => /\ req'[r].resp.success
                      /\ Bare(req'[r].ret[k]) = Bare(DocumentedDefaults[k])
          /\ (Returns(r, "get-enabled") /\ Absent(file, "enabled"))
             => /\ req'[r].resp.success
                /\ req'[r].ret["enabled"] = DocumentedDefaults["enabled"]
      ]_vars

\* C14: a get-settings request that finds no settings file, before any save,
\* returns transport "udp4", port 2019 and verbose 4, and the file it
\* creates holds exactly the documented defaults.
FreshStoreDefaults ==
    [][\A r \in Reqs :
          (/\ Returns(r, "get-settings")
           /\ file = Missing
           /\ file'.kind = "json"
           /\ \A k \in Keys : writer[k] = 0)
          => /\ req'[r].resp.success
             /\ req'[r].ret = [k \in SettingKeys |-> DocumentedDefaults[k]]
             /\ file' = Json(Doc("dict", "dict", DocumentedDefaults))
      ]_vars

\* What get-enabled-state would answer now.
EnabledView == get_micro_ros_agent_enabled(file, DEFAULT_SETTINGS, "ok").ret

\* C15: every step that is not the handler of a save-enabled-state request
\* (start, stop, status, boot, get-settings, save-settings,
\* get-enabled-state and their internal steps) leaves the value
\* get-enabled-state would answer unchanged.
EnabledOnlyBySave ==
    [][(~\E r \in Reqs : Returns(r, "save-enabled"))
       => EnabledView' = EnabledView]_vars

\* The control plane dies during a save and is started again.
Crashes == booted /\ ~booted'

\* C16: when the control plane dies during a save that found a complete
\* settings document, the file afterwards holds a complete document: the one
\* before the write in progress or the one it was writing.
AtomicWrite ==
    [][(Crashes /\ file.kind = "json")
       => (file' = file \/ file'.kind = "json")]_vars

\* The save-settings requests that have answered success.
SavedRequests ==
    { r \in Reqs : /\ req[r].op = "save-settings"
                   /\ req[r].pc = "done"
                   /\ req[r].resp.success }

\* The stored (transport, port, verbose) is the triple t.
Stored(t) ==
    /\ file.kind = "json"
    /\ file.doc.sec = "dict"
    /\ SettingKeys \subseteq DOMAIN file.doc.kv
    /\ \A k \in SettingKeys : file.doc.kv[k] = t[k]

\* C17: once two save-settings requests have answered success, the stored
\* (transport, port, verbose) is the triple of one of them, whole, however
\* the requests were interleaved.
NoMixedTriple ==
    \A r, q \in SavedRequests :
        r # q => (Stored(req[r].arg) \/ Stored(req[q].arg))

-----------------------------------------------------------------------------
\* The managed process.

\* A start or stop step is scheduled and has not run yet.
InTransition ==
    \E o \in Origins :
        Pending("start_internal", o) \/ Pending("stop_internal", o)

\* C18: the handle of the managed process is set exactly when the agent is
\* reported as running or a start or stop is under way; it is None when the
\* agent is stopped.
HandleIffActive ==
    (micro_ros_agent # "None") <=> (Phase = "Running" \/ InTransition)

\* No start request has been handled yet.
NoStartYet == \A r \in Reqs : req[r].op = "start" => req[r].pc = "queued"

\* enabled=false is stored in the settings file, or no enabled at all.
StoredDisabled(f) ==
    Absent(f, "enabled") \/ f.doc.kv["enabled"] = "false"

\* C19: a boot that finds enabled=false or no enabled in the settings file
\* reads the flag as false and schedules no start step; and from a boot that
\* read the flag as false, until the handler of a start request runs, the
\* agent is reported stopped, no start step has run and none is scheduled.
NoStartWhenDisabled ==
    /\ [][(~booted /\ booted' /\ StoredDisabled(file))
          => (~Truthy(enabled') /\ ~Pending("start_internal", 0)')]_vars
    /\ []((booted /\ ~Truthy(enabled) /\ NoStartYet)
          => /\ Phase = "Stopped"
             /\ spawns = 0
             /\ \A o \in Origins : ~Pending("start_internal", o))

StoppedAfterDisabledBoot ==
    \E r \in Reqs :
        /\ booted
        /\ ~Truthy(enabled)
        /\ NoStartYet
        /\ req[r].op = "status"
        /\ req[r].pc = "done"
        /\ ~req[r].resp.running
        /\ Phase = "Stopped"

====
